---------------------------- MODULE Spec2Model ----------------------------
(***************************************************************************)
(* Model of the lucky-day prediction engine: feature extraction            *)
(* (get_moon_phase, get_thanksgiving, get_holiday_status), table lookup    *)
(* and log-odds fusion (prob_to_logodds, logodds_to_prob,                  *)
(* predict_good_day).                                                      *)
(***************************************************************************)
EXTENDS Integers, Sequences, FiniteSets, TLC

VARIABLES
    pc,              \* "input" before the call under study, "done" after it
    date,            \* the input date, [year, month, day]
    phase,           \* moon.phase / 100 as a numerator over PhaseDen
    tables,          \* the four probability tables, bucket label -> probability
    holidays,        \* local list `holidays` of get_holiday_status
    holiday_status,  \* value returned by get_holiday_status
    moon_phase,      \* value returned by get_moon_phase
    result,          \* record returned by predict_good_day, or None
    err,             \* exception raised by predict_good_day, or None
    lookups,         \* the table lookups predict_good_day made, in order
    prev             \* record returned by the previous call of predict_good_day

vars == <<pc, date, phase, tables, holidays, holiday_status, moon_phase,
          result, err, lookups, prev>>

\* Python's None, where a record is expected
None == [none |-> TRUE]

\* no value yet, where a bucket label is expected
NoBucket == "None"

\* Python evaluates the arguments of a call once, before the call:
\* Let1(v, F) is F applied to the value of v, and so on for more arguments
Let1(v, F(_)) == CHOOSE r \in { F(x) : x \in {v} } : TRUE

Let2(v, w, F(_, _)) == CHOOSE r \in { F(x, y) : x \in {v}, y \in {w} } : TRUE

Let3(u, v, w, F(_, _, _)) ==
    CHOOSE r \in { F(x, y, z) : x \in {u}, y \in {v}, z \in {w} } : TRUE

-----------------------------------------------------------------------------
(* Bounds of the model *)

\* number of consecutive years, from FirstYear on, whose dates are inputs
NumYears == 80

\* denominator of the grid of phase fractions: phase = n / PhaseDen, n in 0..PhaseDen
PhaseDen == 200

\* first year the page's date picker offers
FirstYear == 2026

Years == FirstYear .. (FirstYear + NumYears - 1)

-----------------------------------------------------------------------------
(* datetime: proleptic Gregorian calendar arithmetic *)

DAYS_IN_MONTH == <<31, 28, 31, 30, 31, 30, 31, 31, 30, 31, 30, 31>>

DAYS_BEFORE_MONTH == <<0, 31, 59, 90, 120, 151, 181, 212, 243, 273, 304, 334>>

is_leap(year) == year % 4 = 0 /\ (year % 100 # 0 \/ year % 400 = 0)

days_in_month(year, month) ==
    IF month = 2 /\ is_leap(year) THEN 29 ELSE DAYS_IN_MONTH[month]

days_before_year(year) ==
    LET y == year - 1
    IN  y * 365 + (y \div 4) - (y \div 100) + (y \div 400)

days_before_month(year, month) ==
    DAYS_BEFORE_MONTH[month] + (IF month > 2 /\ is_leap(year) THEN 1 ELSE 0)

\* date.toordinal(): 1 for 0001-01-01
ymd2ord(d) == days_before_year(d.year) + days_before_month(d.year, d.month) + d.day

\* date.fromordinal()
ord2ymd(ordinal) ==
    LET n0   == ordinal - 1
        n400 == n0 \div 146097
        r400 == n0 % 146097
        n100 == r400 \div 36524
        r100 == r400 % 36524
        n4   == r100 \div 1461
        r4   == r100 % 1461
        n1   == r4 \div 365
        n    == r4 % 365
        year == n400 * 400 + 1 + n100 * 100 + n4 * 4 + n1
    IN  IF n1 = 4 \/ n100 = 4
        THEN [year |-> year - 1, month |-> 12, day |-> 31]
        ELSE LET leapyear == n1 = 3 /\ (n4 # 24 \/ n100 = 3)
                 leap(m)  == IF m > 2 /\ leapyear THEN 1 ELSE 0
                 month0   == (n + 50) \div 32
                 prec0    == DAYS_BEFORE_MONTH[month0] + leap(month0)
                 month    == IF prec0 > n THEN month0 - 1 ELSE month0
                 prec     == IF prec0 > n
                             THEN prec0 - (DAYS_IN_MONTH[month]
                                     + (IF month = 2 /\ leapyear THEN 1 ELSE 0))
                             ELSE prec0
             IN  [year |-> year, month |-> month, day |-> n - prec + 1]

\* datetime(year, month, day)
datetime(year, month, day) == [year |-> year, month |-> month, day |-> day]

\* date + timedelta(days=k)
plus_days(d, k) == ord2ymd(ymd2ord(d) + k)

\* date.weekday(): Monday is 0, Sunday is 6
weekday(d) == (ymd2ord(d) + 6) % 7

\* every calendar date of the years the model draws its inputs from
Dates ==
    { d \in [year : Years, month : 1..12, day : 1..31] :
        d.day <= days_in_month(d.year, d.month) }

-----------------------------------------------------------------------------
(* dateutil.easter.easter(year), method EASTER_WESTERN *)

easter(year) ==
    LET y == year
        g == y % 19
        c == y \div 100
        h == (c - (c \div 4) - ((8 * c + 13) \div 25) + 19 * g + 15) % 30
        i == h - (h \div 28) * (1 - (h \div 28) * (29 \div (h + 1)) * ((21 - g) \div 11))
        j == (y + (y \div 4) + i + 2 - c + (c \div 4)) % 7
        p == i - j
        d == 1 + ((p + 27 + ((p + 6) \div 40)) % 31)
        m == 3 + ((p + 26) \div 30)
    IN  datetime(y, m, d)

-----------------------------------------------------------------------------
(* Feature extraction *)

\* get_thanksgiving adding four weeks instead of three
get_thanksgiving_weeks4(year) ==
    LET nov1 == datetime(year, 11, 1)
        days_until_thursday == (3 - weekday(nov1)) % 7
        first_thursday == plus_days(nov1, days_until_thursday)
    IN  plus_days(first_thursday, 4 * 7)

\* get_thanksgiving(year): first Thursday of November plus three weeks
get_thanksgiving(year) ==
    LET nov1 == datetime(year, 11, 1)
        days_until_thursday == (3 - weekday(nov1)) % 7
        first_thursday == plus_days(nov1, days_until_thursday)
    IN  plus_days(first_thursday, 3 * 7)

\* holiday_list with the day after Christmas in the place of New Year's Day
holiday_list_boxing(d) ==
    LET year == d.year
    IN  << datetime(year, 12, 25),
           datetime(year, 12, 26),
           easter(year),
           get_thanksgiving(year) >>

\* holiday_list with the New Year's Day that follows the date's year
holiday_list_next_newyear(d) ==
    LET year == d.year
    IN  << datetime(year, 12, 25),
           datetime(year + 1, 1, 1),
           easter(year),
           get_thanksgiving(year) >>

\* the list `holidays` built by get_holiday_status for the date's own year
holiday_list(d) ==
    LET year == d.year
    IN  << datetime(year, 12, 25),
           datetime(year, 1, 1),
           easter(year),
           get_thanksgiving(year) >>

\* classify_holiday with the two offsets exchanged
classify_holiday_swapped(d, hs) ==
    IF \E i \in 1..Len(hs) : d = hs[i] THEN "HolidayDay"
    ELSE IF \E i \in 1..Len(hs) : d = plus_days(hs[i], 1) THEN "DayBeforeHoliday"
    ELSE IF \E i \in 1..Len(hs) : d = plus_days(hs[i], -1) THEN "DayAfterHoliday"
    ELSE "Other"

\* the three tests of get_holiday_status, in the order the code makes them
classify_holiday(d, hs) ==
    IF \E i \in 1..Len(hs) : d = hs[i] THEN "HolidayDay"
    ELSE IF \E i \in 1..Len(hs) : d = plus_days(hs[i], -1) THEN "DayBeforeHoliday"
    ELSE IF \E i \in 1..Len(hs) : d = plus_days(hs[i], 1) THEN "DayAfterHoliday"
    ELSE "Other"

get_holiday_status(d) ==
    Let1(holiday_list(d), LAMBDA hs : classify_holiday(d, hs))

\* get_moon_phase with the upper end of the first quarter included
get_moon_phase_closed(n) ==
    IF 48 * PhaseDen <= 100 * n /\ 100 * n <= 52 * PhaseDen THEN "FullMoon"
    ELSE IF 23 * PhaseDen <= 100 * n /\ 100 * n <= 27 * PhaseDen THEN "FirstQuarter"
    ELSE IF 73 * PhaseDen <= 100 * n /\ 100 * n < 77 * PhaseDen THEN "LastQuarter"
    ELSE IF 100 * n < 10 * PhaseDen \/ 100 * n > 90 * PhaseDen THEN "NewMoon"
    ELSE "Other"

\* the threshold chain of get_moon_phase on phase = n / PhaseDen;
\* n / PhaseDen >= a / 100 is written 100 * n >= a * PhaseDen
get_moon_phase(n) ==
    IF 48 * PhaseDen <= 100 * n /\ 100 * n <= 52 * PhaseDen THEN "FullMoon"
    ELSE IF 23 * PhaseDen <= 100 * n /\ 100 * n < 27 * PhaseDen THEN "FirstQuarter"
    ELSE IF 73 * PhaseDen <= 100 * n /\ 100 * n < 77 * PhaseDen THEN "LastQuarter"
    ELSE IF 100 * n < 10 * PhaseDen \/ 100 * n > 90 * PhaseDen THEN "NewMoon"
    ELSE "Other"

Phases == 0 .. PhaseDen

-----------------------------------------------------------------------------
(* Floating point.  numpy computes in binary64: every operation returns the *)
(* exact result rounded to the nearest value with a 53 bit significand,    *)
(* ties to even.  The model rounds the same way after every operation, to  *)
(* a significand of Prec bits; exponents are unbounded (no value of the    *)
(* pipeline comes near binary64's exponent limits).  A value is            *)
(* s * m * 2^e with 2^(Prec-1) <= m < 2^Prec, or zero (m = 0).             *)

\* bits of the significand
Prec == 5

\* half the number of fraction bits of the fixed-point working precision in
\* which the series of np.log and np.exp are summed before rounding
HalfBits == 12

FracBits == 2 * HalfBits

FxOne == 2 ^ FracBits

\* number of binary digits of n
BitLen[n \in Nat] == IF n = 0 THEN 0 ELSE 1 + BitLen[n \div 2]

FZero == [s |-> 1, m |-> 0, e |-> 0]

\* s * n * 2^e for an n of more than Prec bits, k bits too many
RoundShift(s, n, e, k) ==
    Let2(n \div 2 ^ k, n % 2 ^ k, LAMBDA q, r :
        Let1(IF r > 2 ^ (k - 1) \/ (r = 2 ^ (k - 1) /\ q % 2 = 1) THEN q + 1 ELSE q,
             LAMBDA q1 :
                IF q1 = 2 ^ Prec
                THEN [s |-> s, m |-> 2 ^ (Prec - 1), e |-> e + k + 1]
                ELSE [s |-> s, m |-> q1, e |-> e + k]))

\* s * n * 2^e rounded to Prec bits, to nearest, ties to even
RoundN(s0, n0, e0) ==
    Let3(s0, n0, e0, LAMBDA s, n, e :
        IF n = 0 THEN FZero
        ELSE Let1(BitLen[n], LAMBDA b :
                IF b <= Prec
                THEN [s |-> s, m |-> n * 2 ^ (Prec - b), e |-> e - (Prec - b)]
                ELSE RoundShift(s, n, e, b - Prec)))

FOne == RoundN(1, 1, 0)

fneg(a0) == Let1(a0, LAMBDA a : [a EXCEPT !.s = -a.s])

\* a * b
fmul(a0, b0) ==
    Let2(a0, b0, LAMBDA a, b :
        IF a.m = 0 \/ b.m = 0 THEN FZero
        ELSE RoundN(a.s * b.s, a.m * b.m, a.e + b.e))

\* a / b, b nonzero: Prec + 3 quotient bits and a sticky bit, then rounded
fdiv(a0, b0) ==
    Let2(a0, b0, LAMBDA a, b :
        IF a.m = 0 THEN FZero
        ELSE LET num == a.m * 2 ^ (Prec + 3)
                 q   == num \div b.m
                 st  == IF num % b.m = 0 THEN 0 ELSE 1
             IN  RoundN(a.s * b.s, 2 * q + st, a.e - b.e - (Prec + 3) - 1))

\* a + b: the operands are aligned exactly when their exponents are close;
\* a far smaller operand only decides the rounding direction (sticky bit)
fadd(a0, b0) ==
    Let2(a0, b0, LAMBDA a, b :
        IF a.m = 0 THEN b
        ELSE IF b.m = 0 THEN a
        ELSE LET x == IF a.e >= b.e THEN a ELSE b
                 y == IF a.e >= b.e THEN b ELSE a
                 d == x.e - y.e
                 n == IF d > Prec + 2
                      THEN x.s * x.m * 8 + y.s
                      ELSE x.s * x.m * 2 ^ d + y.s * y.m
                 e == IF d > Prec + 2 THEN x.e - 3 ELSE y.e
             IN  IF n >= 0 THEN RoundN(1, n, e) ELSE RoundN(-1, -n, e))

fsub(a, b) == fadd(a, fneg(b))

\* |a| < |b| for nonzero a and b: significands have Prec bits, so the
\* exponents decide unless they are equal
MagLess(a, b) == a.e < b.e \/ (a.e = b.e /\ a.m < b.m)

\* a < b
flt(a0, b0) ==
    Let2(a0, b0, LAMBDA a, b :
        IF a.m = 0 THEN b.m # 0 /\ b.s = 1
        ELSE IF b.m = 0 THEN a.s = -1
        ELSE IF a.s # b.s THEN a.s = -1
        ELSE IF a.s = 1 THEN MagLess(a, b) ELSE MagLess(b, a))

\* a >= b
fge(a, b) == ~ flt(a, b)

\* the binary digits of (rh * 10^5 + rl) / 10^10 by long division: acc holds
\* the digits from the first 1 on, pos counts the digits produced;
\* st = <<rh, rl, acc, pos>>
DecBits[st \in Nat \X Nat \X Nat \X Nat] ==
    LET rh  == st[1]
        rl  == st[2]
        acc == st[3]
        pos == st[4]
    IN  IF acc >= 2 ^ (Prec + 1)
        THEN RoundN(1, 2 * acc + (IF rh = 0 /\ rl = 0 THEN 0 ELSE 1), -pos - 1)
        ELSE IF rh = 0 /\ rl = 0 THEN RoundN(1, acc, -pos)
        ELSE LET l2  == 2 * rl
                 h2  == 2 * rh + (l2 \div 100000)
                 bit == IF h2 >= 100000 THEN 1 ELSE 0
             IN  DecBits[<<h2 - bit * 100000, l2 % 100000, 2 * acc + bit, pos + 1>>]

\* the value of a decimal literal 0.hhhhhlllll (ten decimals, below 1)
FromDec(hi, lo) == DecBits[<<hi, lo, 0, 0>>]

-----------------------------------------------------------------------------
(* np.log and np.exp: the function value is summed in fixed point with     *)
(* FracBits fraction bits and then rounded to Prec bits.                   *)

\* a * b in fixed point, for 0 <= a, b < 2, by halves so that no partial
\* product leaves the machine integers
FxMulMag(a0, b0) ==
    Let2(a0, b0, LAMBDA a, b :
        LET H  == 2 ^ HalfBits
            ah == a \div H
            al == a % H
            bh == b \div H
            bl == b % H
        IN  ah * bh + ((ah * bl + al * bh) \div H) + ((al * bl) \div FxOne))

Sgn(a) == IF a < 0 THEN -1 ELSE 1

Abs(a0) == Let1(a0, LAMBDA a : IF a < 0 THEN -a ELSE a)

\* the first k binary digits of rem / d, 0 <= rem < d, appended to acc;
\* st = <<rem, acc, k, d>>
FxDivBits[st \in Nat \X Nat \X Nat \X Nat] ==
    IF st[3] = 0 THEN st[2]
    ELSE LET bit == IF 2 * st[1] >= st[4] THEN 1 ELSE 0
         IN  FxDivBits[<<2 * st[1] - bit * st[4], 2 * st[2] + bit, st[3] - 1, st[4]>>]

\* n / d in fixed point, 0 <= n < d
FxDiv(n, d) == FxDivBits[<<n, 0, FracBits, d>>]

\* z^i / i + z^(i+2) / (i+2) + ... for 0 <= z < 1; st = <<z^i, z^2, i>>
AtanhSeries[st \in Nat \X Nat \X Nat] ==
    IF st[1] = 0 THEN 0
    ELSE (st[1] \div st[3]) + AtanhSeries[<<FxMulMag(st[1], st[2]), st[2], st[3] + 2>>]

\* atanh(z) = z + z^3/3 + z^5/5 + ...
FxAtanh(z0) ==
    Let1(z0, LAMBDA z : AtanhSeries[<<z, FxMulMag(z, z), 1>>])

\* ln 2 = 2 atanh(1/3)
FxLn2 == 2 * FxAtanh(FxDiv(1, 3))

\* np.log(v), v > 0: with v = f * 2^k and f in (sqrt(1/2), sqrt(2)],
\* ln v = k ln 2 + 2 atanh((f - 1) / (f + 1))
np_log(v0) ==
    Let1(v0, LAMBDA v :
        LET big == v.m * v.m > 2 ^ (2 * Prec - 1)
            den == IF big THEN 2 ^ Prec ELSE 2 ^ (Prec - 1)
            k   == v.e + (IF big THEN Prec ELSE Prec - 1)
        IN  Let1(k * FxLn2
                   + Sgn(v.m - den) * 2 * FxAtanh(FxDiv(Abs(v.m - den), v.m + den)),
                 LAMBDA L : RoundN(Sgn(L), Abs(L), -FracBits)))

\* 1 + r + r^2/2! + ... from the term t = r^(i-1)/(i-1)! on; st = <<t, r, i>>
ExpSeries[st \in Int \X Int \X Nat] ==
    IF st[1] = 0 THEN 0
    ELSE st[1] + ExpSeries[<<Sgn(st[1]) * Sgn(st[2])
                               * (FxMulMag(Abs(st[1]), Abs(st[2])) \div st[3]),
                             st[2], st[3] + 1>>]

\* x in fixed point (truncated)
ToFx(x0) ==
    Let1(x0, LAMBDA x :
        LET sh == x.e + FracBits
        IN  IF sh >= 0 THEN x.s * x.m * 2 ^ sh
            ELSE IF -sh > Prec THEN 0
            ELSE x.s * (x.m \div 2 ^ (-sh)))

\* np.exp(x): with x = k ln 2 + r and |r| <= ln 2 / 2, e^x = 2^k e^r
np_exp(x) ==
    Let2(ToFx(x), FxLn2, LAMBDA X, ln2 :
        Let1((X + (ln2 \div 2)) \div ln2, LAMBDA k :
            Let1(X - k * ln2, LAMBDA r :
                RoundN(1, ExpSeries[<<FxOne, r, 1>>], k - FracBits))))

-----------------------------------------------------------------------------
(* Log-odds fusion *)

\* the four weights as written in the source, ten decimals each:
\* 0.hhhhhlllll is [hi |-> hhhhh, lo |-> lllll]
OMEGA_WEEKDAY == [hi |-> 3923, lo |-> 82881]

OMEGA_DAY == [hi |-> 9640, lo |-> 37618]

OMEGA_MOON == [hi |-> 17473, lo |-> 64794]

OMEGA_HOLIDAY == [hi |-> 68962, lo |-> 14708]

\* the floating-point value of a decimal literal
Lit(dec) == FromDec(dec.hi, dec.lo)

\* the literal 0.5
Half == FromDec(50000, 0)

\* the literal 1e-10
Eps == FromDec(0, 1)

\* np.clip(p, lo, hi) = minimum(maximum(p, lo), hi)
np_clip(p0, lo0, hi0) ==
    Let3(p0, lo0, hi0, LAMBDA p, lo, hi :
        Let1(IF flt(p, lo) THEN lo ELSE p, LAMBDA a :
            IF flt(hi, a) THEN hi ELSE a))

\* prob_to_logodds with the odds inverted
prob_to_logodds_inverted(p) ==
    Let1(np_clip(p, Eps, fsub(FOne, Eps)), LAMBDA q :
        np_log(fdiv(fsub(FOne, q), q)))

\* prob_to_logodds(p)
prob_to_logodds(p) ==
    Let1(np_clip(p, Eps, fsub(FOne, Eps)), LAMBDA q :
        np_log(fdiv(q, fsub(FOne, q))))

\* logodds_to_prob with 1 for the numerator
logodds_to_prob_one(logodds) ==
    Let1(np_exp(logodds), LAMBDA ex : fdiv(FOne, fadd(FOne, ex)))

\* logodds_to_prob(logodds); both calls of np.exp return the same value
logodds_to_prob(logodds) ==
    Let1(np_exp(logodds), LAMBDA ex : fdiv(ex, fadd(FOne, ex)))

\* the weights as the floating-point values the literals denote
W_WEEKDAY == Lit(OMEGA_WEEKDAY)

W_DAY == Lit(OMEGA_DAY)

W_MOON == Lit(OMEGA_MOON)

W_HOLIDAY == Lit(OMEGA_HOLIDAY)

\* step 4 of predict_good_day, summed left to right
weighted_sum(lw, ld, lm, lh) ==
    fadd(fadd(fadd(fmul(W_WEEKDAY, lw), fmul(W_DAY, ld)), fmul(W_MOON, lm)),
         fmul(W_HOLIDAY, lh))

\* steps 3 to 6 of predict_good_day on the four probabilities looked up
fuse_steps(p_weekday, p_day, p_moon, p_holiday) ==
    Let1(weighted_sum(prob_to_logodds(p_weekday), prob_to_logodds(p_day),
                      prob_to_logodds(p_moon), prob_to_logodds(p_holiday)),
         LAMBDA logodds_all :
            Let1(logodds_to_prob(logodds_all), LAMBDA p_all :
                [logodds_all |-> logodds_all, p_all |-> p_all,
                 is_good_day |-> fge(p_all, Half)]))

\* table probabilities are the multiples of 1 / ProbDen below 1, and 0
ProbDen == 5

\* k / d as a floating-point value, 0 < k < d
FromRatio(k, d) ==
    Let1(k * 2 ^ (Prec + 3), LAMBDA num :
        RoundN(1, 2 * (num \div d) + (IF num % d = 0 THEN 0 ELSE 1), -(Prec + 3) - 1))

ProbSet == {FZero} \cup { FromRatio(k, ProbDen) : k \in 1..(ProbDen - 1) }

\* fuse_steps on the input probabilities, tabulated once (@@ <<>> leaves the
\* function as it is and has it stored as a table)
FuseTable ==
    [q \in ProbSet \X ProbSet \X ProbSet \X ProbSet |->
        fuse_steps(q[1], q[2], q[3], q[4])] @@ <<>>

\* steps 3 to 6 of predict_good_day, read from the table
fuse(p_weekday, p_day, p_moon, p_holiday) ==
    FuseTable[<<p_weekday, p_day, p_moon, p_holiday>>]

-----------------------------------------------------------------------------
(* Tables and prediction *)

weekday_names == <<"Mon", "Tue", "Wed", "Thu", "Fri", "Sat", "Sun">>

\* f'{day}' followed by the day suffix
day_label(day) == <<day, "hao">>

Dimensions == <<"weekday", "day", "moon", "holiday">>

Labels ==
    [weekday |-> { weekday_names[i] : i \in 1..7 },
     day     |-> { day_label(d) : d \in 1..31 },
     moon    |-> {"FullMoon", "FirstQuarter", "LastQuarter", "NewMoon", "Other"},
     holiday |-> {"HolidayDay", "DayBeforeHoliday", "DayAfterHoliday", "Other"}]

KeyMissing == [missing |-> TRUE]

\* lookup that falls back on another row where the label has no row
lookup_default(table, label) ==
    IF label \in DOMAIN table THEN table[label]
    ELSE table[CHOOSE l \in DOMAIN table : TRUE]

\* df[df[col] == label]['p'].values: the selected rows' probabilities;
\* KeyMissing stands for the empty array
lookup(table, label) ==
    IF label \in DOMAIN table THEN table[label] ELSE KeyMissing

\* numpy's IndexError for .values[0] on an empty array, raised at `line`:
\* "index 0 is out of bounds for axis 0 with size 0".  `mentions` is the
\* set of dimension names and bucket labels that occur in the message.
IndexError(line) == [type |-> "IndexError", line |-> line, mentions |-> {}]

\* predict_good_day(date, weekday_df, day_df, moon_df, holiday_df), with the
\* ephemeris value ph that get_moon_phase computes for the date
predict_good_day(d, ph, tb) ==
    LET weekday_name == weekday_names[weekday(d) + 1]
        day_name     == day_label(d.day)
        mp           == get_moon_phase(ph)
        hs           == get_holiday_status(d)
        p_weekday    == lookup(tb.weekday, weekday_name)
        p_day        == lookup(tb.day, day_name)
        p_moon       == lookup(tb.moon, mp)
        p_holiday    == lookup(tb.holiday, hs)
        raise(k)     == [result |-> None, err |-> IndexError(101 + k),
                         lookups |-> SubSeq(Dimensions, 1, k),
                         moon_phase |-> mp, holiday_status |-> hs]
    IN  IF p_weekday = KeyMissing THEN raise(1)
        ELSE IF p_day = KeyMissing THEN raise(2)
        ELSE IF p_moon = KeyMissing THEN raise(3)
        ELSE IF p_holiday = KeyMissing THEN raise(4)
        ELSE Let1(fuse(p_weekday, p_day, p_moon, p_holiday), LAMBDA f :
                 [result |->
                     [date |-> d, weekday |-> weekday_name, day |-> day_name,
                      moon_phase |-> mp, holiday_status |-> hs,
                      p_weekday |-> p_weekday, p_day |-> p_day,
                      p_moon |-> p_moon, p_holiday |-> p_holiday,
                      logodds_all |-> f.logodds_all, p_all |-> f.p_all,
                      is_good_day |-> f.is_good_day],
                  err |-> None,
                  lookups |-> Dimensions,
                  moon_phase |-> mp, holiday_status |-> hs])

-----------------------------------------------------------------------------
(* Inputs *)

\* a table with a row for every label but those in `missing`
Table(dim, v, missing) == [l \in Labels[dim] \ missing |-> v]

\* complete tables; every row of a table holds the same probability
FusionTables ==
    { [weekday |-> Table("weekday", a, {}), day |-> Table("day", b, {}),
       moon |-> Table("moon", c, {}), holiday |-> Table("holiday", d, {})] :
        a \in ProbSet, b \in ProbSet, c \in ProbSet, d \in ProbSet }

\* the probability a table holds
TableValue(tb, dim) == tb[dim][CHOOSE l \in DOMAIN tb[dim] : TRUE]

\* tables of which each may lack one row
MissingChoice ==
    [weekday |-> {{}, {"Mon"}, {"Sat"}},
     day     |-> {{}, {day_label(25)}, {day_label(31)}},
     moon    |-> {{}, {"FullMoon"}, {"Other"}},
     holiday |-> {{}, {"HolidayDay"}, {"Other"}}]

LookupTables ==
    { [weekday |-> Table("weekday", FromRatio(1, ProbDen), mw),
       day     |-> Table("day", FromRatio(1, ProbDen), md),
       moon    |-> Table("moon", FromRatio(ProbDen - 1, ProbDen), mm),
       holiday |-> Table("holiday", FromRatio(ProbDen - 1, ProbDen), mh)] :
        mw \in MissingChoice.weekday, md \in MissingChoice.day,
        mm \in MissingChoice.moon, mh \in MissingChoice.holiday }

\* the date the page's date picker starts from
DefaultDate == datetime(2027, 3, 13)

\* the dates of a December with Christmas in it
DateSample == { d \in Dates : d.year = FirstYear + 1 /\ d.month = 12 }

\* phase fractions at every eighth of the range
PhaseSample == { (k * PhaseDen) \div 8 : k \in 0..8 }

-----------------------------------------------------------------------------
(* State machine *)

InitCommon ==
    /\ pc = "input"
    /\ holidays = <<>>
    /\ holiday_status = NoBucket
    /\ moon_phase = NoBucket
    /\ result = None
    /\ err = None
    /\ lookups = <<>>
    /\ prev = None

\* the page's button: predict_good_day on the chosen date
Predict ==
    /\ pc = "input"
    /\ \E out \in {predict_good_day(date, phase, tables)} :
           /\ result' = out.result
           /\ err' = out.err
           /\ lookups' = out.lookups
           /\ holiday_status' = out.holiday_status
           /\ moon_phase' = out.moon_phase
    /\ holidays' = holiday_list(date)
    /\ prev' = result
    /\ pc' = "done"
    /\ UNCHANGED <<date, phase, tables>>

\* load_prob_tables on the next run of the page, after one of the four
\* files was replaced
LoadTables ==
    /\ pc = "done"
    /\ \E i \in 1..4 : \E v \in ProbSet :
          /\ v # TableValue(tables, Dimensions[i])
          /\ tables' = [tables EXCEPT ![Dimensions[i]] = Table(Dimensions[i], v, {})]
    /\ pc' = "input"
    /\ prev' = None
    /\ UNCHANGED <<date, phase, holidays, holiday_status, moon_phase,
                   result, err, lookups>>

\* get_holiday_status on the date
GetHolidayStatus ==
    /\ pc = "input"
    /\ holidays' = holiday_list(date)
    /\ holiday_status' = get_holiday_status(date)
    /\ pc' = "done"
    /\ UNCHANGED <<date, phase, tables, moon_phase, result, err, lookups, prev>>

\* get_moon_phase on the phase fraction
GetMoonPhase ==
    /\ pc = "input"
    /\ moon_phase' = get_moon_phase(phase)
    /\ pc' = "done"
    /\ UNCHANGED <<date, phase, tables, holidays, holiday_status, result, err,
                   lookups, prev>>

DefaultTables == CHOOSE tb \in LookupTables : \A i \in 1..4 : DOMAIN tb[Dimensions[i]] = Labels[Dimensions[i]]

\* the fusion: complete tables of varying probabilities
Init ==
    /\ InitCommon
    /\ date = DefaultDate
    /\ phase = PhaseDen \div 2
    /\ tables \in FusionTables

Next == Predict \/ LoadTables

Spec == Init /\ [][Next]_vars

\* the lookups: tables lacking rows, dates and phases of every bucket
InitLookup ==
    /\ InitCommon
    /\ date \in DateSample
    /\ phase \in PhaseSample
    /\ tables \in LookupTables

NextLookup == Predict

SpecLookup == InitLookup /\ [][NextLookup]_vars

\* get_holiday_status over every date
InitHoliday ==
    /\ InitCommon
    /\ date \in Dates
    /\ phase = PhaseDen \div 2
    /\ tables = DefaultTables

NextHoliday == GetHolidayStatus

SpecHoliday == InitHoliday /\ [][NextHoliday]_vars

\* get_moon_phase over every phase fraction of the grid
InitMoon ==
    /\ InitCommon
    /\ date = DefaultDate
    /\ phase \in Phases
    /\ tables = DefaultTables

NextMoon == GetMoonPhase

SpecMoon == InitMoon /\ [][NextMoon]_vars

-----------------------------------------------------------------------------
(* Properties *)

\* the four holidays of a year: Dec 25, Jan 1, Easter Sunday and the
\* Thursday that falls on November 22 to 28
HolidaysOf(year) ==
    { datetime(year, 12, 25), datetime(year, 1, 1), easter(year) } \cup
    { h \in { datetime(year, 11, k) : k \in 22..28 } : weekday(h) = 3 }

\* C1: get_holiday_status(d) is HolidayDay when d is one of the four holidays
\* of its own year (Dec 25, Jan 1, Easter Sunday, Thanksgiving), else
\* DayBeforeHoliday when d is the day before one of them, else DayAfterHoliday
\* when d is the day after one of them, else Other; Dec 25, 24 and 26 of 2027
\* are HolidayDay, DayBeforeHoliday and DayAfterHoliday.
C1_HolidayStatus ==
    pc = "done" =>
        LET H == HolidaysOf(date.year)
            n == ymd2ord(date)
        IN  /\ holiday_status =
                  IF date \in H THEN "HolidayDay"
                  ELSE IF \E h \in H : n = ymd2ord(h) - 1 THEN "DayBeforeHoliday"
                  ELSE IF \E h \in H : n = ymd2ord(h) + 1 THEN "DayAfterHoliday"
                  ELSE "Other"
            /\ date = datetime(2027, 12, 25) => holiday_status = "HolidayDay"
            /\ date = datetime(2027, 12, 24) => holiday_status = "DayBeforeHoliday"
            /\ date = datetime(2027, 12, 26) => holiday_status = "DayAfterHoliday"

C1_Witness ==
    /\ pc = "done"
    /\ date = datetime(2027, 12, 24)
    /\ holiday_status = "DayBeforeHoliday"

\* C2: the four weights a prediction is made with are non-negative and their
\* sum is exactly 1.0, that is 10^10 in units of 10^-10 (here 10^5 units of
\* 10^-5 and no remainder).
C2_WeightsSumToOne ==
    result # None =>
        LET ws == <<OMEGA_WEEKDAY, OMEGA_DAY, OMEGA_MOON, OMEGA_HOLIDAY>>
            lo == ws[1].lo + ws[2].lo + ws[3].lo + ws[4].lo
            hi == ws[1].hi + ws[2].hi + ws[3].hi + ws[4].hi + (lo \div 100000)
        IN  /\ \A i \in 1..4 : ws[i].hi >= 0 /\ ws[i].lo >= 0
            /\ hi = 100000
            /\ lo % 100000 = 0

\* C3: the phase fraction falls in exactly one bucket: FullMoon on
\* [0.48, 0.52], FirstQuarter on [0.23, 0.27), LastQuarter on [0.73, 0.77),
\* NewMoon below 0.10 or above 0.90, Other elsewhere; 0.50 is FullMoon and
\* 0.27 is Other.
C3_MoonPhase ==
    pc = "done" =>
        LET x == 100 * phase
            D == PhaseDen
        IN  /\ moon_phase \in Labels.moon
            /\ moon_phase = "FullMoon" <=> (48 * D <= x /\ x <= 52 * D)
            /\ moon_phase = "FirstQuarter" <=> (23 * D <= x /\ x < 27 * D)
            /\ moon_phase = "LastQuarter" <=> (73 * D <= x /\ x < 77 * D)
            /\ moon_phase = "NewMoon" <=> (x < 10 * D \/ x > 90 * D)
            /\ x = 50 * D => moon_phase = "FullMoon"
            /\ x = 27 * D => moon_phase = "Other"

C3_Witness ==
    /\ pc = "done"
    /\ 100 * phase = 27 * PhaseDen
    /\ moon_phase = "Other"

\* C4 as claimed: is_good_day == (logodds_all >= 0) == (p_all >= 0.5).
C4_ThresholdEquivalence ==
    result # None =>
        /\ result.is_good_day <=> fge(result.logodds_all, FZero)
        /\ result.is_good_day <=> fge(result.p_all, Half)

\* C4: is_good_day == (p_all >= 0.5); logodds_all >= 0 implies is_good_day;
\* with logodds_all < 0, is_good_day holds only where exp(logodds_all)
\* rounds to 1.0, and p_all is then exactly 0.5.
C4_ThresholdAmended ==
    result # None =>
        /\ result.is_good_day <=> fge(result.p_all, Half)
        /\ fge(result.logodds_all, FZero) => result.is_good_day
        /\ (result.is_good_day /\ flt(result.logodds_all, FZero)) =>
              /\ np_exp(result.logodds_all) = FOne
              /\ result.p_all = Half

C4_Witness ==
    /\ result # None
    /\ result.is_good_day
    /\ flt(result.logodds_all, FZero)

\* the inputs of b are those of a but for one, which is larger in b
OneLarger(a, b) ==
    LET pa == <<a.p_weekday, a.p_day, a.p_moon, a.p_holiday>>
        pb == <<b.p_weekday, b.p_day, b.p_moon, b.p_holiday>>
    IN  \E i \in 1..4 :
            /\ flt(pa[i], pb[i])
            /\ \A j \in (1..4) \ {i} : pa[j] = pb[j]

\* C5 as claimed: of two input vectors that differ in one component, the one
\* with the larger value yields a p_all at least as large, and never turns
\* is_good_day from true to false.
C5_Monotone ==
    (prev # None /\ result # None /\ OneLarger(prev, result)) =>
        /\ fge(result.p_all, prev.p_all)
        /\ prev.is_good_day => result.is_good_day

\* C5: of two input vectors that differ in one component, the one with the
\* larger value yields a logodds_all at least as large, and never turns
\* is_good_day from true to false (p_all itself may come out smaller).
C5_MonotoneAmended ==
    (prev # None /\ result # None /\ OneLarger(prev, result)) =>
        /\ fge(result.logodds_all, prev.logodds_all)
        /\ prev.is_good_day => result.is_good_day

C5_Witness ==
    /\ prev # None
    /\ result # None
    /\ OneLarger(prev, result)
    /\ prev.is_good_day
    /\ flt(result.p_all, prev.p_all)

\* the bucket predict_good_day looks up in each table
LookedUp ==
    [weekday |-> weekday_names[weekday(date) + 1],
     day     |-> day_label(date.day),
     moon    |-> moon_phase,
     holiday |-> holiday_status]

\* the dimensions whose table has no row for the bucket looked up
MissingDims ==
    { i \in 1..4 : LookedUp[Dimensions[i]] \notin DOMAIN tables[Dimensions[i]] }

FirstMissing == CHOOSE i \in MissingDims : \A j \in MissingDims : i <= j

\* C6: when a bucket has no row in its table, predict_good_day ends in an
\* error: no result record, no probability put in the place of the missing
\* one, and no second lookup (the lookups stop at the first one that fails).
C6_LookupFailure ==
    (pc = "done" /\ MissingDims # {}) =>
        /\ result = None
        /\ err # None
        /\ err.type = "IndexError"
        /\ lookups = SubSeq(Dimensions, 1, FirstMissing)

C6_Witness ==
    /\ pc = "done"
    /\ MissingDims = {3, 4}
    /\ err # None
    /\ lookups = <<"weekday", "day", "moon">>

\* the dimension looked up by the statement at a line of predict_good_day
DimensionAtLine(line) == Dimensions[line - 101]

\* C7: the error of a failed lookup identifies the dimension and the bucket
\* that had no entry.
C7_ErrorNamesBucket ==
    (pc = "done" /\ err # None) =>
        /\ \/ Dimensions[FirstMissing] \in err.mentions
           \/ DimensionAtLine(err.line) = Dimensions[FirstMissing]
        /\ LookedUp[Dimensions[FirstMissing]] \in err.mentions

\* C8: get_thanksgiving(Y) is the fourth Thursday of November of Y: a
\* Thursday, in November of Y, on a day from 22 to 28, with exactly three
\* Thursdays of that November before it; in 2027 it is November 25.
C8_Thanksgiving ==
    pc = "done" =>
        LET t == holidays[4]
        IN  /\ weekday(t) = 3
            /\ t.year = date.year
            /\ t.month = 11
            /\ t.day \in 22..28
            /\ Cardinality({ k \in 1..(t.day - 1) :
                               weekday(datetime(t.year, 11, k)) = 3 }) = 3
            /\ date.year = 2027 => t = datetime(2027, 11, 25)

C8_Witness ==
    /\ pc = "done"
    /\ date.year = 2027
    /\ holidays[4] = datetime(2027, 11, 25)

\* the three tests of get_holiday_status on the list it built
MatchesEqual == \E i \in 1..Len(holidays) : date = holidays[i]

MatchesBefore == \E i \in 1..Len(holidays) : ymd2ord(date) = ymd2ord(holidays[i]) - 1

MatchesAfter == \E i \in 1..Len(holidays) : ymd2ord(date) = ymd2ord(holidays[i]) + 1

\* C9: no date matches more than one of the three conditions (a holiday, the
\* day before one, the day after one), so the order of the three tests does
\* not change the bucket.
C9_WellSeparated ==
    pc = "done" =>
        /\ ~ (MatchesEqual /\ MatchesBefore)
        /\ ~ (MatchesEqual /\ MatchesAfter)
        /\ ~ (MatchesBefore /\ MatchesAfter)
        /\ holiday_status = "HolidayDay" <=> MatchesEqual
        /\ holiday_status = "DayBeforeHoliday" <=> MatchesBefore
        /\ holiday_status = "DayAfterHoliday" <=> MatchesAfter

C9_Witness ==
    /\ pc = "done"
    /\ MatchesAfter
    /\ holiday_status = "DayAfterHoliday"
    /\ date.month = 11

\* C10: December 31 is Other, never DayBeforeHoliday; DayBeforeHoliday is
\* returned only for the days before Christmas, Easter and Thanksgiving.
C10_NewYearsEve ==
    pc = "done" =>
        /\ (date.month = 12 /\ date.day = 31) => holiday_status = "Other"
        /\ holiday_status = "DayBeforeHoliday" =>
              LET next == plus_days(date, 1)
              IN  \/ next.month = 12 /\ next.day = 25
                  \/ next = easter(date.year)
                  \/ next = get_thanksgiving(date.year)

C10_Witness ==
    /\ pc = "done"
    /\ date = datetime(2027, 12, 31)
    /\ holiday_status = "Other"

====
